---- MODULE Spec2Model ----
(***************************************************************************)
(* Model of the two sequential simulations of the Monte Carlo notebooks:   *)
(*   monte_carlo_radiation_transport  (particle walk, transmission rate)   *)
(*   monte_carlo_schedule             (forward pass over a task mapping)   *)
(* Distances are counted in whole units, probabilities in units of         *)
(* 1/ProbScale, and a value returned by np.random.rand() is u/RandResolution*)
(* for an integer u in 0..RandResolution-1.                                *)
(***************************************************************************)
EXTENDS Integers, Sequences, FiniteSets, TLC

\* ---------------------------------------------------------------- bounds
MaxParticles == 2
MaxDist == 2
MaxStep == 2
ProbScale == 2
RandResolution == 4
MaxCalls == 2
MaxTasks == 3
MaxSims == 2
MaxZ == 2
MaxDuration == 3

\* No finite walk needs more than MaxDist iterations (every step is >= 1 unit);
\* only a walk with max_distance = Infinity is cut off by MaxIters.
MaxIters == MaxDist + 2
\* float('inf'): larger than every finite position the model reaches.
Infinity == MaxIters * MaxStep + MaxDist + 1
\* The generator is a periodic stream; GenPeriod is its period.
GenPeriod == 2 * RandResolution + 1

UniformDraws == 0..(RandResolution - 1)
Probabilities == 0..ProbScale
Distances == (0..MaxDist) \cup {Infinity}
NoRate == <<-1, -1>>
\* rand before its first assignment
NoDraw == -1

\* Duration triples [optimistic, most likely, pessimistic] offered to a task: two
\* without spread and one whose spread lets a draw fall below zero.
Triples == {<<1, 1, 1>>, <<2, 2, 2>>, <<0, 1, 5>>}
\* Values of a standard normal draw, in whole standard deviations.
NormalDraws == (-MaxZ)..MaxZ
\* every triple (optimistic, most_likely, pessimistic) in order
OrderedTriples ==
    {tr \in (0..MaxDuration) \X (0..MaxDuration) \X (0..MaxDuration) :
        tr[1] <= tr[2] /\ tr[2] <= tr[3]}
\* The predecessor lists offered to a task; an identifier above the number of
\* tasks of the mapping is not a key of it.
TaskIds == 1..MaxTasks

VARIABLES
    \* arguments of monte_carlo_radiation_transport
    num_particles, absorption_prob, scattering_prob, max_distance,
    \* its locals and control position
    pc, particle, position, rand, transmissions, transmission_rate, err,
    \* history of the walk: status of the current particle, terminal statuses of
    \* the finished ones, iterations of the current walk, rand draws of this
    \* call, branch taken by the last interaction
    status, statuses, iters, rands, branch,
    \* the process-wide numpy generator, and the calls made so far
    gen, calls, results,
    \* arguments of monte_carlo_schedule: tasks is the mapping in its iteration
    \* order, a task's identifier being its place in that order
    tasks, num_simulations,
    \* its locals and control position; times are in sixths of a day
    spc, sim, task, duration, start_time, task_durations, project_durations, serr,
    \* number of calls of sample_task_duration so far
    samples

cfgvars == <<num_particles, absorption_prob, scattering_prob, max_distance>>
walkvars == <<pc, particle, position, rand, transmissions, transmission_rate, err,
              status, statuses, iters, rands, branch>>
transportvars == <<cfgvars, walkvars, calls, results>>
schedvars == <<tasks, num_simulations, spc, sim, task, duration, start_time,
               task_durations, project_durations, serr, samples>>
vars == <<transportvars, gen, schedvars>>

\* ------------------------------------------------ pure parts of the walk

\* -np.log(u): +inf at u = 0, strictly positive and decreasing in u below 1.
StepLengthOfComplement(u) ==
    IF u = 0 THEN 0
    ELSE 1 + ((u - 1) * MaxStep) \div (RandResolution - 1)
StepLength(u) ==
    IF u = 0 THEN Infinity
    ELSE 1 + ((RandResolution - 1 - u) * MaxStep) \div (RandResolution - 1)

\* position += step
AdvanceOverwrite(pos, step) == step
Advance(pos, step) ==
    IF pos = Infinity \/ step = Infinity THEN Infinity ELSE pos + step

\* if position >= max_distance
ExitsInverted(pos, maxd) == pos < maxd
ExitsStrict(pos, maxd) == pos > maxd
Exits(pos, maxd) == pos >= maxd

\* if rand < absorption_prob              (rand = u / RandResolution)
AbsorbsInverted(u, a) == a * RandResolution < u * ProbScale
AbsorbsOrScatters(u, a) == u * ProbScale < (a + scattering_prob) * RandResolution
Absorbs(u, a) == u * ProbScale < a * RandResolution

\* elif rand < absorption_prob + scattering_prob
Scatters(u, a, s) == u * ProbScale < (a + s) * RandResolution

\* len(transmissions) / num_particles, as the pair <<numerator, denominator>>
TransmissionRateOffByOne(trans, n) == <<Len(trans), n + 1>>
TransmissionRate(trans, n) == <<Len(trans), n>>

\* position = 0 at the start of each particle
StartPositionStale == position
StartPosition == 0

\* continue: back to the top of while True
ContinueAsBreak == "for"
Continue == "while"

\* The generator: the value the next rand() returns, and the state after it.
Temper(g) == (g + g \div RandResolution) % RandResolution
NextState(g) == (g + 1) % GenPeriod

\* ------------------------------------------------------------ the walk

\* monte_carlo_schedule is not running.
ScheduleIdle ==
    /\ tasks = <<>>
    /\ num_simulations = 0
    /\ spc = "idle"
    /\ sim = 0
    /\ task = 0
    /\ duration = 0
    /\ start_time = 0
    /\ task_durations = <<>>
    /\ project_durations = <<>>
    /\ serr = "none"
    /\ samples = 0

TransportInit ==
    /\ ScheduleIdle
    /\ num_particles \in 0..MaxParticles
    /\ absorption_prob \in Probabilities
    /\ scattering_prob \in Probabilities
    /\ max_distance \in Distances
    /\ pc = "for"
    /\ particle = 0
    /\ position = 0
    /\ rand = NoDraw
    /\ transmissions = <<>>
    /\ transmission_rate = NoRate
    /\ err = "none"
    /\ status = "none"
    /\ statuses = <<>>
    /\ iters = 0
    /\ rands = 0
    /\ branch = "none"
    /\ gen = 0
    /\ calls = 1
    /\ results = <<>>

\* for _ in range(num_particles): position = 0
NextParticle ==
    /\ pc = "for"
    /\ IF particle < num_particles
       THEN /\ particle' = particle + 1
            /\ position' = StartPosition
            /\ status' = "InFlight"
            /\ iters' = 0
            /\ pc' = "while"
       ELSE /\ pc' = "rate"
            /\ UNCHANGED <<particle, position, status, iters>>
    /\ branch' = "none"
    /\ UNCHANGED <<cfgvars, rand, transmissions, transmission_rate, err, statuses,
                   rands, calls, results>>

\* step = -np.log(u); position += step; if position >= max_distance: append, break
SampleStep(u) ==
    /\ pc = "while"
    /\ iters < MaxIters
    /\ LET pos == Advance(position, StepLength(u)) IN
       /\ position' = pos
       /\ iters' = iters + 1
       /\ IF Exits(pos, max_distance)
          THEN /\ transmissions' = Append(transmissions, pos)
               /\ status' = "Transmitted"
               /\ statuses' = Append(statuses, "Transmitted")
               /\ pc' = "for"
          ELSE /\ pc' = "rand"
               /\ UNCHANGED <<transmissions, status, statuses>>
    /\ branch' = "none"
    /\ UNCHANGED <<cfgvars, particle, rand, transmission_rate, err, rands, calls,
                   results>>

\* rand = u; absorbed: break; scattered: continue; otherwise: continue
Interact(u) ==
    /\ pc = "rand"
    /\ rand' = u
    /\ rands' = rands + 1
    /\ IF Absorbs(u, absorption_prob)
       THEN /\ status' = "Absorbed"
            /\ statuses' = Append(statuses, "Absorbed")
            /\ branch' = "absorb"
            /\ pc' = "for"
       ELSE IF Scatters(u, absorption_prob, scattering_prob)
       THEN /\ branch' = "scatter"
            /\ pc' = Continue
            /\ UNCHANGED <<status, statuses>>
       ELSE /\ branch' = "residual"
            /\ pc' = Continue
            /\ UNCHANGED <<status, statuses>>
    /\ UNCHANGED <<cfgvars, particle, position, transmissions, transmission_rate,
                   err, iters, calls, results>>

\* transmission_rate = len(transmissions) / num_particles; return
Return ==
    /\ pc = "rate"
    /\ IF num_particles = 0
       THEN /\ err' = "ZeroDivisionError"
            /\ pc' = "raised"
            /\ UNCHANGED transmission_rate
       ELSE /\ transmission_rate' = TransmissionRate(transmissions, num_particles)
            /\ pc' = "returned"
            /\ UNCHANGED err
    /\ UNCHANGED <<cfgvars, particle, position, rand, transmissions, status,
                   statuses, iters, rands, branch, calls, results>>

\* The caller runs the simulation cell again with the same arguments.
CallAgain ==
    /\ pc = "returned"
    /\ calls < MaxCalls
    /\ calls' = calls + 1
    /\ results' = Append(results, transmission_rate)
    /\ pc' = "for"
    /\ particle' = 0
    /\ position' = 0
    /\ rand' = NoDraw
    /\ transmissions' = <<>>
    /\ transmission_rate' = NoRate
    /\ status' = "none"
    /\ statuses' = <<>>
    /\ iters' = 0
    /\ rands' = 0
    /\ branch' = "none"
    /\ UNCHANGED <<cfgvars, err>>

\* One call, its draws free inputs: every sequence of values of rand().
Next ==
    \/ NextParticle /\ UNCHANGED <<gen, schedvars>>
    \/ \E u \in UniformDraws : SampleStep(u) /\ UNCHANGED <<gen, schedvars>>
    \/ \E u \in UniformDraws : Interact(u) /\ UNCHANGED <<gen, schedvars>>
    \/ Return /\ UNCHANGED <<gen, schedvars>>

Spec == TransportInit /\ [][Next]_vars

\* The interpreter keeps executing the function until it returns or raises.
FairSpec == Spec /\ WF_vars(Next)

\* Repeated calls, their draws taken from the process-wide generator, which no
\* call reseeds.
SeededNext ==
    \/ NextParticle /\ UNCHANGED <<gen, schedvars>>
    \/ SampleStep(Temper(gen)) /\ gen' = NextState(gen) /\ UNCHANGED schedvars
    \/ Interact(Temper(gen)) /\ gen' = NextState(gen) /\ UNCHANGED schedvars
    \/ Return /\ UNCHANGED <<gen, schedvars>>
    \/ CallAgain /\ UNCHANGED <<gen, schedvars>>

\* np.random.seed(s) once, before the first call: s is any generator state.
SeededInit ==
    /\ ScheduleIdle
    /\ num_particles \in 0..MaxParticles
    /\ absorption_prob \in Probabilities
    /\ scattering_prob \in Probabilities
    /\ max_distance \in Distances
    /\ pc = "for"
    /\ particle = 0
    /\ position = 0
    /\ rand = NoDraw
    /\ transmissions = <<>>
    /\ transmission_rate = NoRate
    /\ err = "none"
    /\ status = "none"
    /\ statuses = <<>>
    /\ iters = 0
    /\ rands = 0
    /\ branch = "none"
    /\ gen \in 0..(GenPeriod - 1)
    /\ calls = 1
    /\ results = <<>>

SeededSpec == SeededInit /\ [][SeededNext]_vars

\* ------------------------------------------------------- the schedule

Max(S) == CHOOSE x \in S : \A y \in S : y <= x

\* sample_task_duration: mean = (o + 4m + p) / 6, std_dev = (p - o) / 6, and
\* np.random.normal(mean, std_dev) = mean + std_dev * z; the result in sixths.
MeanSixths(triple) == triple[1] + 4 * triple[2] + triple[3]
StdDevSixthsFromMode(triple) == triple[3] - triple[2]
StdDevSixths(triple) == triple[3] - triple[1]
SampleTaskDuration(triple, z) == MeanSixths(triple) + StdDevSixths(triple) * z

\* start_time: max(task_durations[p] for p in predecessors), or 0
StartTimeEarliest(predecessors, finished) ==
    IF predecessors # {}
    THEN CHOOSE x \in {finished[q] : q \in predecessors} :
             \A q \in predecessors : x <= finished[q]
    ELSE 0
StartTime(predecessors, finished) ==
    IF predecessors # {} THEN Max({finished[q] : q \in predecessors}) ELSE 0

\* finish_time = start_time + duration
FinishTimeNoDuration(start, dur) == start
FinishTimeClamped(start, dur) == IF dur < 0 THEN start ELSE start + dur
FinishTime(start, dur) == start + dur

\* max(task_durations.values())
ProjectDurationOfLast(finished) == finished[Len(finished)]
ProjectDuration(finished) == Max({finished[q] : q \in DOMAIN finished})

\* for _ in range(num_simulations): another replication follows s completed ones
MoreSimulationsInclusive(s, n) == s <= n
MoreSimulations(s, n) == s < n

\* monte_carlo_radiation_transport is not running.
TransportIdle ==
    /\ num_particles = 0
    /\ absorption_prob = 0
    /\ scattering_prob = 0
    /\ max_distance = 0
    /\ pc = "idle"
    /\ particle = 0
    /\ position = 0
    /\ rand = NoDraw
    /\ transmissions = <<>>
    /\ transmission_rate = NoRate
    /\ err = "none"
    /\ status = "none"
    /\ statuses = <<>>
    /\ iters = 0
    /\ rands = 0
    /\ branch = "none"
    /\ gen = 0
    /\ calls = 0
    /\ results = <<>>

TaskRecords == [predecessors : SUBSET TaskIds, duration : Triples]

ScheduleInit ==
    /\ TransportIdle
    /\ \E n \in 0..MaxTasks : tasks \in [1..n -> TaskRecords]
    /\ num_simulations \in 0..MaxSims
    /\ spc = "sims"
    /\ sim = 0
    /\ task = 0
    /\ duration = 0
    /\ start_time = 0
    /\ task_durations = <<>>
    /\ project_durations = <<>>
    /\ serr = "none"
    /\ samples = 0

\* for _ in range(num_simulations): task_durations = {};  return project_durations
NextSimulation ==
    /\ spc = "sims"
    /\ IF MoreSimulations(sim, num_simulations)
       THEN /\ sim' = sim + 1
            /\ task_durations' = <<>>
            /\ task' = 0
            /\ spc' = "tasks"
       ELSE /\ spc' = "returned"
            /\ UNCHANGED <<sim, task_durations, task>>
    /\ UNCHANGED <<tasks, num_simulations, duration, start_time,
                   project_durations, serr, samples>>

\* for task, info in tasks.items(): the body for the next task of the mapping,
\* z being the standard normal value behind np.random.normal
ScheduleTaskSkipsMissing(z) ==
    /\ spc = "tasks"
    /\ task < Len(tasks)
    /\ LET t == task + 1
           info == tasks[t]
           d == SampleTaskDuration(info.duration, z)
       IN
       /\ task' = t
       /\ duration' = d
       /\ samples' = samples + 1
       /\ start_time' =
              StartTime(info.predecessors \cap DOMAIN task_durations, task_durations)
       /\ task_durations' = Append(task_durations, FinishTime(start_time', d))
    /\ UNCHANGED <<tasks, num_simulations, sim, project_durations, spc, serr>>
ScheduleTask(z) ==
    /\ spc = "tasks"
    /\ task < Len(tasks)
    /\ LET t == task + 1
           info == tasks[t]
           d == SampleTaskDuration(info.duration, z)
       IN
       /\ task' = t
       /\ duration' = d
       /\ samples' = samples + 1
       /\ IF info.predecessors \subseteq DOMAIN task_durations
          THEN /\ start_time' = StartTime(info.predecessors, task_durations)
               /\ task_durations' =
                      Append(task_durations, FinishTime(start_time', d))
               /\ UNCHANGED <<spc, serr>>
          ELSE /\ serr' = "KeyError"
               /\ spc' = "raised"
               /\ UNCHANGED <<start_time, task_durations>>
    /\ UNCHANGED <<tasks, num_simulations, sim, project_durations>>

\* project_duration = max(task_durations.values()); project_durations.append(...)
EndSimulationSkipsError ==
    /\ spc = "tasks"
    /\ task = Len(tasks)
    /\ IF task_durations = <<>>
       THEN /\ serr' = "ValueError"
            /\ UNCHANGED project_durations
       ELSE /\ project_durations' =
                   Append(project_durations, ProjectDuration(task_durations))
            /\ UNCHANGED serr
    /\ spc' = "sims"
    /\ UNCHANGED <<tasks, num_simulations, sim, task, duration, start_time,
                   task_durations, samples>>
EndSimulation ==
    /\ spc = "tasks"
    /\ task = Len(tasks)
    /\ IF task_durations = <<>>
       THEN /\ serr' = "ValueError"
            /\ spc' = "raised"
            /\ UNCHANGED project_durations
       ELSE /\ project_durations' =
                   Append(project_durations, ProjectDuration(task_durations))
            /\ spc' = "sims"
            /\ UNCHANGED serr
    /\ UNCHANGED <<tasks, num_simulations, sim, task, duration, start_time,
                   task_durations, samples>>

\* A task with std_dev = 0 gets its mean whatever the draw.
ScheduleNext ==
    \/ NextSimulation /\ UNCHANGED <<transportvars, gen>>
    \/ \E z \in NormalDraws : ScheduleTask(z) /\ UNCHANGED <<transportvars, gen>>
    \/ EndSimulation /\ UNCHANGED <<transportvars, gen>>

ScheduleSpec == ScheduleInit /\ [][ScheduleNext]_vars

\* monte_carlo_schedule over one task without predecessors, for every ordered
\* triple: each replication is one call of sample_task_duration.
SingleTaskInit ==
    /\ TransportIdle
    /\ tasks \in [1..1 -> [predecessors : {{}}, duration : OrderedTriples]]
    /\ num_simulations \in 1..MaxSims
    /\ spc = "sims"
    /\ sim = 0
    /\ task = 0
    /\ duration = 0
    /\ start_time = 0
    /\ task_durations = <<>>
    /\ project_durations = <<>>
    /\ serr = "none"
    /\ samples = 0
SingleTaskSpec == SingleTaskInit /\ [][ScheduleNext]_vars

\* Either notebook is run.
ProgramInit == TransportInit \/ ScheduleInit
ProgramNext == Next \/ ScheduleNext
ProgramSpec == ProgramInit /\ [][ProgramNext]_vars

\* ------------------------------------------------------------ properties

Count(seq, v) == Cardinality({i \in DOMAIN seq : seq[i] = v})
Terminal == {"Absorbed", "Transmitted"}

TransparentConfig ==
    /\ absorption_prob = 0
    /\ scattering_prob = 0
    /\ max_distance = 0
    /\ num_particles >= 1

\* C1: with absorption_prob = 0, scattering_prob = 0, max_distance = 0 and at least
\* one particle, every particle is Transmitted at the position check of its first
\* iteration, no interaction draw is ever made, and the returned rate is n/n = 1.0.
C1_ZeroDistanceAllTransmitted ==
    TransparentConfig =>
        /\ rands = 0
        /\ pc # "rand"
        /\ iters <= 1
        /\ iters = 1 => status = "Transmitted"
        /\ \A i \in DOMAIN statuses : statuses[i] = "Transmitted"
        /\ err = "none"
        /\ pc = "returned" =>
              /\ Len(statuses) = num_particles
              /\ transmission_rate = <<num_particles, num_particles>>

C1_Witness ==
    /\ TransparentConfig
    /\ num_particles >= 2
    /\ pc = "returned"
    /\ transmission_rate[1] = transmission_rate[2]

OpaqueConfig ==
    /\ absorption_prob = ProbScale
    /\ scattering_prob = 0

\* C2: with absorption_prob = 1 and scattering_prob = 0, a particle whose first step
\* leaves position < max_distance is Absorbed at that first interaction, no walk has
\* a second iteration, and a particle is Transmitted only if its first step already
\* reached max_distance.
C2_AbsorbedAtFirstInteraction ==
    OpaqueConfig =>
        /\ iters <= 1
        /\ branch \notin {"scatter", "residual"}
        /\ (iters = 1 /\ position < max_distance) =>
              \/ pc = "rand" /\ status = "InFlight"
              \/ status = "Absorbed"
        /\ status = "Transmitted" => (iters = 1 /\ position >= max_distance)
        /\ status = "Absorbed" => (iters = 1 /\ position < max_distance)

C2_Witness ==
    /\ OpaqueConfig
    /\ Len(statuses) = 2
    /\ statuses[1] = "Absorbed"
    /\ statuses[2] = "Transmitted"
    /\ pc = "returned"

InvalidProbabilities == absorption_prob + scattering_prob > ProbScale

\* C3: a call with absorption_prob + scattering_prob > 1 fails with
\* InvalidProbabilities before any particle is walked, and returns no rate.
C3_InvalidProbabilitiesRejected ==
    InvalidProbabilities =>
        /\ particle = 0
        /\ transmission_rate = NoRate
        /\ err \in {"none", "InvalidProbabilities"}

\* C8: the returned rate is (number of particles whose terminal status is
\* Transmitted) / num_particles; a particle adds at most one entry to
\* transmissions, an Absorbed one adds none, and the rate lies in [0, 1].
C8_RateIsTransmittedFraction ==
    /\ Len(transmissions) = Count(statuses, "Transmitted")
    /\ Len(statuses) <= particle
    /\ particle <= num_particles
    /\ \A i \in DOMAIN statuses : statuses[i] \in Terminal
    /\ pc = "returned" =>
          /\ Len(statuses) = num_particles
          /\ transmission_rate = <<Count(statuses, "Transmitted"), num_particles>>
          /\ 0 <= transmission_rate[1]
          /\ transmission_rate[1] <= transmission_rate[2]
          /\ transmission_rate[2] > 0

C8_Witness ==
    /\ pc = "returned"
    /\ Count(statuses, "Absorbed") >= 1
    /\ Count(statuses, "Transmitted") >= 1
    /\ transmission_rate = <<1, 2>>

\* A cap no finite walk of the model can exceed.
IterationCap == MaxDist + 1

\* C9: a walk that performs more iterations than the iteration cap without reaching
\* a terminal status fails with NonTerminatingWalk.
C9_IterationCapEnforced ==
    iters > IterationCap => (pc = "raised" /\ err = "NonTerminatingWalk")

FiniteRun == max_distance # Infinity /\ num_particles >= 1

Known == DOMAIN tasks
PredecessorsOf(t) == tasks[t].predecessors \cap Known

RECURSIVE Closure(_, _)
Closure(S, k) ==
    IF k = 0 THEN S
    ELSE Closure(S \cup UNION {PredecessorsOf(q) : q \in S}, k - 1)

Ancestors(t) == Closure(PredecessorsOf(t), Len(tasks))
HasCycle == \E t \in Known : t \in Ancestors(t)
AllPredecessorsKnown == \A t \in Known : tasks[t].predecessors \subseteq Known
ValidGraph == Len(tasks) >= 1 /\ AllPredecessorsKnown /\ ~HasCycle
ZeroVariance == \A t \in Known : StdDevSixths(tasks[t].duration) = 0

\* The dependency-respecting paths: each task of a path is a predecessor of the next.
Paths ==
    {q \in UNION {[1..k -> Known] : k \in 1..Len(tasks)} :
        \A i \in 1..(Len(q) - 1) : q[i] \in tasks[q[i + 1]].predecessors}

RECURSIVE PathLength(_)
PathLength(q) ==
    IF q = <<>> THEN 0
    ELSE 6 * tasks[Head(q)].duration[2] + PathLength(Tail(q))

\* Length of the longest path, summing the most likely durations (in sixths).
CriticalPathLength == Max({PathLength(q) : q \in Paths})

\* C4: a task mapping with a dependency cycle is rejected with CyclicDependency
\* before any duration is sampled and before any replication starts.
C4_CycleRejectedBeforeSampling ==
    HasCycle =>
        /\ samples = 0
        /\ serr \in {"none", "CyclicDependency"}

\* C5: when every task has o = m = p, every replication's project duration is the
\* length of the longest dependency-respecting path, for every acyclic mapping
\* whatever the order of its tasks.
C5_ZeroVarianceCriticalPath ==
    (ValidGraph /\ ZeroVariance) =>
        /\ serr = "none"
        /\ Len(project_durations) = (IF spc = "tasks" THEN sim - 1 ELSE sim)
        /\ \A i \in DOMAIN project_durations :
               project_durations[i] = CriticalPathLength

\* C6: in each replication every task is processed after all its predecessors,
\* whatever the iteration order of the mapping: the finish times of the
\* predecessors of every task whose processing has begun are known.
C6_TopologicalProcessing ==
    ValidGraph =>
        \A t \in 1..task : tasks[t].predecessors \subseteq DOMAIN task_durations

\* C7: two calls with the same arguments in a process seeded once produce the same
\* transmission rate (the result depends on the arguments and the seed only).
C7_RepeatedRunsIdentical ==
    (calls = 2 /\ pc = "returned") => transmission_rate = results[1]


\* C11: a mapping in which some task names a predecessor id that is not a key
\* is rejected with UnknownPredecessor at construction: no duration is sampled
\* and no replication starts.
C11_UnknownPredecessorRejected ==
    (spc # "idle" /\ ~AllPredecessorsKnown) =>
        /\ samples = 0
        /\ sim = 0
        /\ serr \in {"none", "UnknownPredecessor"}

\* C12: a replication or particle count of zero and an empty task graph are
\* rejected with ConfigurationError before any replication: no run returns an
\* empty sample, divides by a zero count, or takes the maximum of an empty set
\* of finish times.
C12_EmptyConfigurationRejected ==
    /\ ~(spc = "returned" /\ project_durations = <<>>)
    /\ err # "ZeroDivisionError"
    /\ serr # "ValueError"


\* C13: no replication observes what another wrote: each replication starts
\* with an empty table of finish times and each particle starts at position 0
\* in flight, whatever the previous one left behind; no step of either run
\* changes the task graph, the counts, the probabilities or the distance.
C13_ReplicationsIndependent ==
    [][/\ (spc = "sims" /\ spc' = "tasks") => (task_durations' = <<>> /\ task' = 0)
       /\ (pc = "for" /\ pc' = "while") => (position' = 0 /\ status' = "InFlight")
       /\ tasks' = tasks
       /\ num_simulations' = num_simulations
       /\ cfgvars' = cfgvars]_vars

\* The second particle is about to start its walk after the first one left
\* the medium at a positive position.
C13_Witness ==
    /\ particle = 2
    /\ pc = "while"
    /\ iters = 0
    /\ position = 0
    /\ statuses = <<"Transmitted">>
    /\ transmissions[1] > 0


\* The number of replications whose scalar has been collected.
CompletedReplications == IF spc \in {"tasks", "raised"} THEN sim - 1 ELSE sim

\* C14: at every point the number of collected scalars equals the number of
\* completed replications, the sample only grows by appending the scalar of the
\* replication that just ended, and a completed run returns exactly
\* num_simulations scalars.
C14_OneScalarPerReplication ==
    /\ [](/\ Len(project_durations) = CompletedReplications
          /\ spc = "returned" => Len(project_durations) = num_simulations)
    /\ [][project_durations' # project_durations =>
             /\ spc = "tasks" /\ spc' = "sims"
             /\ project_durations' =
                    Append(project_durations, ProjectDuration(task_durations))]_vars

\* A run of two replications has returned two different scalars.
C14_Witness ==
    /\ spc = "returned"
    /\ num_simulations = 2
    /\ Len(project_durations) = 2
    /\ project_durations[1] # project_durations[2]


\* The graph is one task without predecessors.
SingleTask == Len(tasks) = 1 /\ tasks[1].predecessors = {}

\* C15: for a graph of one task without predecessors, the scalar of each
\* replication is that replication's sampled duration: the task starts at 0,
\* finishes at its duration, and the maximum is over that single finish time.
C15_SingleTaskDuration ==
    (SingleTask /\ spc \in {"sims", "returned"} /\ sim >= 1) =>
        /\ start_time = 0
        /\ task_durations = <<duration>>
        /\ project_durations[sim] = duration

\* Two replications of a single task with spread have drawn two different
\* durations, the second one negative.
C15_Witness ==
    /\ SingleTask
    /\ spc = "returned"
    /\ sim = 2
    /\ duration < 0
    /\ project_durations[1] > 0
    /\ project_durations[2] = duration


\* C16: an error raised during a run ends the whole run: after it no step of
\* the run is taken, the run does not return, and neither a partial sample nor
\* a rate is handed to the caller.
C16_ErrorsAreFatal ==
    /\ [](/\ serr # "none" => (spc = "raised" /\ project_durations = <<>>)
          /\ err # "none" => (pc = "raised" /\ transmission_rate = NoRate)
          /\ spc = "returned" => serr = "none"
          /\ pc = "returned" => err = "none")
    /\ [][spc # "raised" /\ pc # "raised"]_vars

\* The lookup of a predecessor failed after an earlier task of the same
\* replication had already been given its finish time.
C16_Witness ==
    /\ serr = "KeyError"
    /\ spc = "raised"
    /\ task_durations # <<>>
    /\ samples >= 2


\* C17: each iteration first adds the step, then tests position >=
\* max_distance and, if it holds, records Transmitted and stops without drawing
\* rand; rand is drawn only at a position below max_distance, and the particle
\* is Absorbed exactly when rand < absorption_prob. So Transmitted is only ever
\* recorded at position >= max_distance, Absorbed only below it, and no step
\* or draw follows a terminal status.
C17_IterationOrder ==
    /\ [](/\ status = "Transmitted" => position >= max_distance
          /\ status = "Absorbed" => position < max_distance
          /\ pc = "rand" => position < max_distance
          /\ pc \in {"while", "rand"} => status = "InFlight")
    /\ [][/\ iters' = iters + 1 =>
               /\ pc = "while"
               /\ rands' = rands
               /\ IF position' >= max_distance
                  THEN status' = "Transmitted" /\ pc' = "for"
                  ELSE status' = "InFlight" /\ pc' = "rand"
          /\ rands' # rands =>
               /\ pc = "rand"
               /\ rands' = rands + 1
               /\ position' = position
               /\ iters' = iters
               /\ status' = "Absorbed" <=>
                      rand' * ProbScale < absorption_prob * RandResolution
               /\ status' = "Absorbed" => pc' = "for"]_vars

\* One particle was absorbed after surviving a draw, the other left the medium.
C17_Witness ==
    /\ pc = "returned"
    /\ statuses = <<"Absorbed", "Transmitted">>
    /\ rands >= 2
    /\ max_distance \notin {0, Infinity}


\* C18: the position is never negative, and every iteration of a particle in
\* flight leaves the position strictly greater than it found it.
C18_PositionIncreases ==
    /\ [](position >= 0)
    /\ [][(pc = "while" /\ iters' = iters + 1) =>
              (status = "InFlight" /\ position' > position)]_vars

\* A particle is still in flight after three iterations, further along each time.
C18_Witness ==
    /\ status = "InFlight"
    /\ pc = "rand"
    /\ iters = 3
    /\ position >= 3
    /\ position < max_distance


\* C19: a draw with rand >= absorption_prob at a position below max_distance
\* leaves the particle in flight with the position and the transmitted
\* particles unchanged, in the scatter branch (rand < absorption_prob +
\* scattering_prob) and in the remaining branch alike, and the walk goes on
\* with the next step.
C19_ScatterAndResidualKeepFlying ==
    [][(/\ rands' # rands
        /\ ~(rand' * ProbScale < absorption_prob * RandResolution)) =>
           /\ position < max_distance
           /\ branch' = IF rand' * ProbScale <
                             (absorption_prob + scattering_prob) * RandResolution
                        THEN "scatter" ELSE "residual"
           /\ status' = "InFlight"
           /\ position' = position
           /\ transmissions' = transmissions
           /\ statuses' = statuses
           /\ pc' = "while"]_vars

\* A particle with a positive absorption probability has survived its second
\* draw through the remaining branch.
C19_Witness ==
    /\ branch = "residual"
    /\ absorption_prob > 0
    /\ rands >= 2
    /\ status = "InFlight"
    /\ position >= 1


\* C20: within a replication every task that is given a finish time starts at
\* 0 if it has no predecessors and otherwise at the largest finish time of its
\* predecessors in the same replication, and finishes at its start plus its
\* sampled duration; finish times once stored are not rewritten, and each task
\* processed costs exactly one sample.
C20_ForwardPass ==
    /\ [](/\ (task >= 1 /\ Len(task_durations) = task) =>
                LET predecessors == tasks[task].predecessors IN
                /\ predecessors = {} => start_time = 0
                /\ predecessors # {} =>
                       /\ \A q \in predecessors : task_durations[q] <= start_time
                       /\ \E q \in predecessors : task_durations[q] = start_time
                /\ task_durations[task] = start_time + duration
          /\ samples = IF sim = 0 THEN 0 ELSE (sim - 1) * Len(tasks) + task)
    /\ [][/\ \/ task_durations' = task_durations
             \/ task_durations' = <<>> /\ spc = "sims"
             \/ \E f \in {task_durations'[Len(task_durations')]} :
                    task_durations' = Append(task_durations, f)
          /\ samples' # samples => (samples' = samples + 1 /\ task' = task + 1)
          /\ task' = task + 1 => samples' = samples + 1]_vars

\* The third task waits for the later of two predecessors that finished at
\* different times.
C20_Witness ==
    /\ task = 3
    /\ Len(task_durations) = 3
    /\ tasks[3].predecessors = {1, 2}
    /\ task_durations[1] < task_durations[2]
    /\ start_time = task_durations[2]
    /\ duration > 0


\* C21: the scalar a replication contributes is the largest finish time over
\* all tasks of the graph: every task has a finish time, none exceeds the
\* scalar, and some task attains it.
C21_ProjectDurationIsMaxFinish ==
    (spc \in {"sims", "returned"} /\ sim >= 1) =>
        /\ DOMAIN task_durations = DOMAIN tasks
        /\ \A t \in DOMAIN tasks : task_durations[t] <= project_durations[sim]
        /\ \E t \in DOMAIN tasks : task_durations[t] = project_durations[sim]

\* The scalar is the finish time of the first task, which has a successor that
\* finished earlier, and is not the finish time of the last task processed.
C21_Witness ==
    /\ spc = "sims"
    /\ sim = 1
    /\ Len(tasks) = 3
    /\ tasks[2].predecessors = {1}
    /\ project_durations[1] = task_durations[1]
    /\ task_durations[2] < task_durations[1]
    /\ task_durations[3] < task_durations[1]


\* Every task of the mapping comes after all its predecessors in the iteration
\* order of the mapping.
PredecessorsFirst ==
    \A t \in DOMAIN tasks : tasks[t].predecessors \subseteq 1..(t - 1)

\* C22: a negative sampled duration is used as drawn: the task then finishes
\* strictly before it starts, its finish time is what later tasks and the
\* project duration are computed from, and a negative draw raises nothing: a
\* non-empty mapping that lists predecessors first never fails.
C22_NegativeDurationsUnclamped ==
    /\ (task >= 1 /\ Len(task_durations) = task /\ duration < 0) =>
           /\ task_durations[task] - start_time = duration
           /\ task_durations[task] < start_time
    /\ (PredecessorsFirst /\ tasks # <<>>) => serr = "none"
    /\ (spc \in {"sims", "returned"} /\ sim >= 1) =>
           project_durations[sim] = ProjectDuration(task_durations)

\* The second task drew a negative duration and finished before its
\* predecessor did; the third task started at that finish time, before the
\* second task had started, and the replication completed.
C22_Witness ==
    /\ spc = "sims"
    /\ sim = 1
    /\ Len(tasks) = 3
    /\ tasks[2].predecessors = {1}
    /\ tasks[3].predecessors = {2}
    /\ task_durations[2] < task_durations[1]
    /\ start_time = task_durations[2]
    /\ Len(project_durations) = 1


\* C23: for a triple o <= m <= p every sample is drawn around the mean
\* (o + 4m + p)/6 with the standard deviation (p - o)/6, the same two values in
\* every replication; the mean lies between o and p, the standard deviation is
\* not negative and is 0 exactly when o = p, in which case every sample is o.
C23_PertParameters ==
    task >= 1 =>
        LET o == tasks[task].duration[1]
            m == tasks[task].duration[2]
            p == tasks[task].duration[3]
            samplesOf == {(o + 4 * m + p) + (p - o) * z : z \in NormalDraws}
        IN
        /\ duration \in samplesOf
        /\ \A i \in DOMAIN project_durations : project_durations[i] \in samplesOf
        /\ 6 * o <= MeanSixths(tasks[task].duration)
        /\ MeanSixths(tasks[task].duration) <= 6 * p
        /\ StdDevSixths(tasks[task].duration) >= 0
        /\ StdDevSixths(tasks[task].duration) = 0 <=> o = p
        /\ o = p => duration = 6 * o

\* Two replications of a task with o < m < p have drawn two different
\* durations around the same mean.
C23_Witness ==
    /\ spc = "returned"
    /\ Len(project_durations) = 2
    /\ tasks[1].duration[1] < tasks[1].duration[2]
    /\ tasks[1].duration[2] < tasks[1].duration[3]
    /\ project_durations[1] < MeanSixths(tasks[1].duration)
    /\ project_durations[2] > MeanSixths(tasks[1].duration)

\* What a call shows of its particles: everything but the branch taken by a
\* surviving draw and the draw itself.
WalkOutcome ==
    <<pc, particle, position, status, statuses, iters, rands, transmissions,
      transmission_rate, err>>

\* C24: the outcome of a walk does not depend on scattering_prob: every step
\* takes the outcome so far to an outcome fixed by the draw of that step,
\* absorption_prob, max_distance and num_particles alone, so two calls that
\* differ only in scattering_prob and see the same draws give every particle
\* the same status after the same iterations at the same position, and return
\* the same rate.
C24_ScatteringProbIrrelevant ==
    [][/\ rands' # rands =>
            LET absorbed == rand' * ProbScale < absorption_prob * RandResolution IN
            WalkOutcome' =
                <<IF absorbed THEN "for" ELSE "while", particle, position,
                  IF absorbed THEN "Absorbed" ELSE status,
                  IF absorbed THEN Append(statuses, "Absorbed") ELSE statuses,
                  iters, rands + 1, transmissions, transmission_rate, err>>
       /\ iters' = iters + 1 =>
            LET out == position' >= max_distance IN
            WalkOutcome' =
                <<IF out THEN "for" ELSE "rand", particle, position',
                  IF out THEN "Transmitted" ELSE status,
                  IF out THEN Append(statuses, "Transmitted") ELSE statuses,
                  iters + 1, rands,
                  IF out THEN Append(transmissions, position') ELSE transmissions,
                  transmission_rate, err>>
       /\ pc = "for" =>
            WalkOutcome' =
                IF particle < num_particles
                THEN <<"while", particle + 1, 0, "InFlight", statuses, 0, rands,
                       transmissions, transmission_rate, err>>
                ELSE <<"rate", particle, position, status, statuses, iters, rands,
                       transmissions, transmission_rate, err>>
       /\ pc = "rate" =>
            WalkOutcome' =
                IF num_particles = 0
                THEN <<"raised", particle, position, status, statuses, iters, rands,
                       transmissions, transmission_rate, "ZeroDivisionError">>
                ELSE <<"returned", particle, position, status, statuses, iters,
                       rands, transmissions, <<Len(transmissions), num_particles>>,
                       err>>]_vars

\* The second particle survived a draw through the scatter branch, which the
\* same draw would not have taken with scattering_prob = 0.
C24_Witness ==
    /\ branch = "scatter"
    /\ scattering_prob > 0
    /\ ~(rand * ProbScale < absorption_prob * RandResolution)
    /\ absorption_prob > 0
    /\ statuses = <<"Absorbed">>
    /\ status = "InFlight"


\* The tasks visited before one of their predecessors has a finish time: a
\* predecessor later in the mapping, the task itself, or an id that is no key.
VisitedTooEarly ==
    {t \in DOMAIN tasks : ~(tasks[t].predecessors \subseteq 1..(t - 1))}

\* C25: tasks are visited in the iteration order of the mapping. If every task
\* comes after all its predecessors no lookup fails. Otherwise the first
\* replication fails with a lookup error at the first task visited too early,
\* after the durations of the tasks before it and its own have been sampled,
\* and no project duration is ever recorded.
C25_InsertionOrderLookup ==
    /\ VisitedTooEarly = {} => serr # "KeyError"
    /\ VisitedTooEarly # {} =>
           LET first == CHOOSE t \in VisitedTooEarly :
                            \A e \in VisitedTooEarly : t <= e
           IN
           /\ project_durations = <<>>
           /\ sim <= 1
           /\ task <= first
           /\ task = first =>
                  /\ serr = "KeyError"
                  /\ spc = "raised"
                  /\ samples = first
                  /\ Len(task_durations) = first - 1
           /\ serr = "KeyError" => task = first
           /\ spc = "returned" => num_simulations = 0

\* The second of three tasks names the third as its predecessor: the lookup
\* failed at the second task after two durations had been sampled.
C25_Witness ==
    /\ Len(tasks) = 3
    /\ tasks[1].predecessors = {}
    /\ tasks[2].predecessors = {3}
    /\ task = 2
    /\ samples = 2
    /\ serr = "KeyError"
    /\ Len(task_durations) = 1

====
